---- MODULE Spec2Model ----
(***************************************************************************)
(* A model of seq2.py: the reverse-subtract-repeat iteration, its cycle    *)
(* detector (find_ending_loop_for_number), the canonical rotation of a     *)
(* loop (get_canonical_loop) and the tally over a range of starting values *)
(* (analyze_number_range).                                                 *)
(*                                                                         *)
(* A Python value is modelled as a pair (type, payload): type is one of    *)
(* "int", "bool", "float", "str", "none" and payload an integer (the int   *)
(* itself, 0/1 for False/True, n for the float n.0, n for the string of    *)
(* n's decimal digits).  A Python string is a sequence of character codes  *)
(* (ASCII), so that str(), slicing [::-1] and int() are modelled by what   *)
(* they do.  Console output (print, the verbose trace, the progress lines) *)
(* and the timestamped result file are not part of the state.              *)
(***************************************************************************)
EXTENDS Integers, Sequences, FiniteSets, TLC

(***************************************************************************)
(* Bounds of the model (inputs a caller may pass).                         *)
(***************************************************************************)
\* largest int handed to find_ending_loop_for_number
MaxNumber == 1012
\* most negative int handed to either function is -MinInput
MinInput == 3
\* payloads of float and str starting values are 0..MaxOther
MaxOther == 2
\* start_range is drawn from -MinInput..MaxRangeStart and a window at HighRangeStart
MaxRangeStart == 101
HighRangeStart == 1010
\* width of the window at HighRangeStart
HighRangeWidth == 2
\* end_range is drawn from start_range-RangeBack .. start_range+RangeSpan
RangeBack == 4
RangeSpan == 4
\* get_canonical_loop is called directly on lists of at most MaxLoopLen
\* values drawn from 0..MaxLoopValue and the documented loop 9, 27, 63
MaxLoopLen == 4
MaxLoopValue == 1

VARIABLES
    fn,                        \* the function the caller invoked ("none" before)
    pc,                        \* position in it: idle, while, for, returned, raised
    error,                     \* the exception that left the function, or "none"
    \* find_ending_loop_for_number
    initial_type, initial_number,
    seen_numbers, sequence,
    current_type, current_number,
    step, reversed_num,
    loop_start_index, actual_loop_list, canonical_form,
    \* get_canonical_loop called on its own
    loop_list,
    \* analyze_number_range
    start_range, end_range, i,
    total_numbers_to_process,
    loop_frequencies, sorted_loops, summary_lines,
    detector_calls             \* the arguments of the calls made at line 117, in order

detvars == <<initial_type, initial_number, seen_numbers, sequence, current_type,
             current_number, step, reversed_num, loop_start_index,
             actual_loop_list>>
rangevars == <<start_range, end_range, i, total_numbers_to_process,
               loop_frequencies, sorted_loops, summary_lines, detector_calls>>
vars == <<fn, pc, error, detvars, canonical_form, loop_list, rangevars>>

(***************************************************************************)
(* Strings.                                                                *)
(***************************************************************************)
Minus == 45
Plus == 43
Zero == 48
\* "True", "False"
StrTrue == <<84, 114, 117, 101>>
StrFalse == <<70, 97, 108, 115, 101>>

\* the decimal rendering of n >= 0, most significant digit first
DecimalDigits[n \in Nat] ==
    IF n < 10 THEN <<Zero + n>>
    ELSE Append(DecimalDigits[n \div 10], Zero + (n % 10))

\* str(x) for an int or a bool
PyStr[t \in {"int", "bool"}, n \in Int] ==
    IF t = "bool" THEN (IF n = 1 THEN StrTrue ELSE StrFalse)
    ELSE IF n < 0 THEN <<Minus>> \o DecimalDigits[-n]
    ELSE DecimalDigits[n]

\* s[::-1]
ReverseStr[s \in Seq(Nat)] == [k \in 1..Len(s) |-> s[Len(s) + 1 - k]]

RECURSIVE DigitsValueUpTo(_, _)
\* the number the first k characters of a string of digits denote
DigitsValueUpTo(s, k) ==
    IF k = 0 THEN 0
    ELSE 10 * DigitsValueUpTo(s, k - 1) + (s[k] - Zero)

\* int(s): an optional sign, then digits only; anything else is a ValueError.
\* (Blanks and underscores, which int() also accepts, never occur in the
\* reversed str() of an int or a bool.)
PyInt[s \in Seq(Nat)] ==
    LET signed == s # <<>> /\ s[1] \in {Minus, Plus}
        body == IF signed THEN Tail(s) ELSE s
        ok == body # <<>> /\ \A k \in 1..Len(body) : body[k] \in Zero..(Zero + 9)
    IN IF ~ok THEN [ok |-> FALSE, value |-> 0]
       ELSE [ok |-> TRUE,
             value |-> IF signed /\ s[1] = Minus THEN -DigitsValueUpTo(body, Len(body))
                       ELSE DigitsValueUpTo(body, Len(body))]

\* reverse_number without the single-digit convention
ReverseNoPad(t, n) ==
    PyInt[ReverseStr[PyStr[t, n]]]

\* reverse_number(n): [ok, value]; ok is FALSE when int() raises ValueError
reverse_number(t, n) ==
    LET s == PyStr[t, n]
        s_to_reverse == IF Len(s) = 1 THEN <<Zero>> \o s ELSE s
    IN PyInt[ReverseStr[s_to_reverse]]

(***************************************************************************)
(* get_canonical_loop.                                                     *)
(***************************************************************************)
\* min(loop_list), loop_list non-empty
MinOf(l) == CHOOSE m \in {l[k] : k \in 1..Len(l)} : \A k \in 1..Len(l) : m <= l[k]

\* loop_list.index(v), 0-based: the first position holding v
IndexOf(l, v) == (CHOOSE k \in 1..Len(l) : l[k] = v /\ \A j \in 1..(k - 1) : l[j] # v) - 1

\* get_canonical_loop that returns the list as it came
CanonicalNoRotate(l) == l

get_canonical_loop(l) ==
    IF l = <<>> THEN <<>>
    ELSE LET min_val == MinOf(l)
             min_idx == IndexOf(l, min_val)
         IN SubSeq(l, min_idx + 1, Len(l)) \o SubSeq(l, 1, min_idx)

(***************************************************************************)
(* find_ending_loop_for_number.                                            *)
(***************************************************************************)
\* isinstance(x, int): bool is a subclass of int
IsInstanceInt(t) == t \in {"int", "bool"}

\* the guard of line 47 without its sign test
InvalidInputNoSign(t, n) == ~IsInstanceInt(t)

\* the guard of line 47
InvalidInput(t, n) == ~IsInstanceInt(t) \/ n < 0

\* the branches of lines 70-81 with the else branch lost
NextNumberNoElse(c, r) ==
    IF c = r THEN 0 ELSE c - r

\* next_number from current_number and reversed_num
NextNumber(c, r) ==
    IF c = r THEN 0
    ELSE IF c > r THEN c - r
    ELSE r - c

\* the locals of the function after line 53
EnterLoop(t, n) ==
    [seen_numbers |-> <<>>, sequence |-> <<>>, current_type |-> t,
     current_number |-> n, step |-> 0, reversed_num |-> 0, raised |-> FALSE]

\* the while condition of line 59
NotSeen(st) == st.current_number \notin DOMAIN st.seen_numbers

\* one pass through the body of the while loop, lines 63-84
WhileBody(st) ==
    LET r == reverse_number(st.current_type, st.current_number)
        recorded == [st EXCEPT
            !.seen_numbers = (st.current_number :> Len(st.sequence)) @@ @,
            !.sequence = Append(@, st.current_number)]
    IN IF ~r.ok THEN [recorded EXCEPT !.raised = TRUE]
       ELSE [recorded EXCEPT
                !.reversed_num = r.value,
                !.current_type = "int",
                !.current_number = NextNumber(st.current_number, r.value),
                !.step = @ + 1]

RECURSIVE RunWhile(_)
\* the while loop run to its exit (or to the exception that leaves it)
RunWhile(st) ==
    IF st.raised \/ ~NotSeen(st) THEN st ELSE RunWhile(WhileBody(st))

\* line 86
LoopStartIndex(st) == st.seen_numbers[st.current_number]

\* the loop taken to be the whole sequence
WholeSequence(st) == st.sequence

\* line 87: sequence[loop_start_index:]
ActualLoopList(st) ==
    SubSeq(st.sequence, LoopStartIndex(st) + 1, Len(st.sequence))

\* the function as its caller sees it: [raised, value]
find_ending_loop_for_number(t, n) ==
    IF InvalidInput(t, n) THEN [raised |-> TRUE, value |-> <<>>]
    ELSE LET st == RunWhile(EnterLoop(t, n))
         IN IF st.raised THEN [raised |-> TRUE, value |-> <<>>]
            ELSE [raised |-> FALSE, value |-> get_canonical_loop(ActualLoopList(st))]

(***************************************************************************)
(* analyze_number_range.  loop_frequencies is a dict: a sequence of        *)
(* [loop, count] entries in insertion order, one per key.                  *)
(***************************************************************************)
\* loop_frequencies[loop] = 1 in place of += 1
DictSetOne(d, loop) ==
    IF \E k \in 1..Len(d) : d[k].loop = loop
    THEN [k \in 1..Len(d) |-> IF d[k].loop = loop THEN [d[k] EXCEPT !.count = 1] ELSE d[k]]
    ELSE Append(d, [loop |-> loop, count |-> 1])

\* loop_frequencies[loop] += 1 on a defaultdict(int): line 118
DictIncr(d, loop) ==
    IF \E k \in 1..Len(d) : d[k].loop = loop
    THEN [k \in 1..Len(d) |-> IF d[k].loop = loop THEN [d[k] EXCEPT !.count = @ + 1] ELSE d[k]]
    ELSE Append(d, [loop |-> loop, count |-> 1])

RECURSIVE TupleLess(_, _)
\* a < b on tuples of ints: the first differing element decides, a proper
\* prefix is smaller
TupleLess(a, b) ==
    IF a = <<>> THEN b # <<>>
    ELSE IF b = <<>> THEN FALSE
    ELSE IF a[1] = b[1] THEN TupleLess(Tail(a), Tail(b))
    ELSE a[1] < b[1]

\* the sort key of line 138, (item[1], item[0]), compared
KeyLess(x, y) ==
    \/ x.count < y.count
    \/ x.count = y.count /\ TupleLess(x.loop, y.loop)

\* x put into a list sorted in descending key order, after its equals
InsertDesc(l, x) ==
    LET before == {k \in 1..Len(l) : KeyLess(l[k], x)}
        at == IF before = {} THEN Len(l) + 1
              ELSE CHOOSE k \in before : \A j \in before : k <= j
    IN SubSeq(l, 1, at - 1) \o <<x>> \o SubSeq(l, at, Len(l))

\* x put into a list sorted in ascending key order, after its equals
InsertAsc(l, x) ==
    LET after == {k \in 1..Len(l) : KeyLess(x, l[k])}
        at == IF after = {} THEN Len(l) + 1
              ELSE CHOOSE k \in after : \A j \in after : k <= j
    IN SubSeq(l, 1, at - 1) \o <<x>> \o SubSeq(l, at, Len(l))

RECURSIVE SortAsc(_)
\* sorted(items, key=...) with reverse=True left out
SortAsc(items) ==
    IF items = <<>> THEN <<>>
    ELSE InsertAsc(SortAsc(SubSeq(items, 1, Len(items) - 1)), items[Len(items)])

RECURSIVE SortedLoops(_)
\* sorted(loop_frequencies.items(), key=..., reverse=True): line 138
SortedLoops(items) ==
    IF items = <<>> THEN <<>>
    ELSE InsertDesc(SortedLoops(SubSeq(items, 1, Len(items) - 1)), items[Len(items)])

\* a line of the summary: its kind and the values it shows
Line(kind, loop, n, m) == [kind |-> kind, loop |-> loop, n |-> n, m |-> m]

\* the summary with the empty-table branch of lines 132-135 left out
SummaryNoEmptyCheck(freq, s, e, total) ==
    LET sorted == SortedLoops(freq)
    IN <<Line("title", <<>>, 0, 0),
         Line("analysis", <<>>, s, e),
         Line("total", <<>>, total, 0),
         Line("found", <<>>, Len(sorted), 0),
         Line("blank", <<>>, 0, 0)>>
       \o [k \in 1..Len(sorted) |-> Line("loop", sorted[k].loop, sorted[k].count, 0)]
       \o <<Line("end", <<>>, 0, 0)>>

\* summary_lines as printed: lines 129-148
SummaryLines(freq, s, e, total) ==
    IF freq = <<>>
    THEN <<Line("title", <<>>, 0, 0), Line("nothing", <<>>, 0, 0)>>
    ELSE LET sorted == SortedLoops(freq)
         IN <<Line("title", <<>>, 0, 0),
              Line("analysis", <<>>, s, e),
              Line("total", <<>>, total, 0),
              Line("found", <<>>, Len(sorted), 0),
              Line("blank", <<>>, 0, 0)>>
            \o [k \in 1..Len(sorted) |-> Line("loop", sorted[k].loop, sorted[k].count, 0)]
            \o <<Line("end", <<>>, 0, 0)>>

(***************************************************************************)
(* The state machine.  A caller invokes one of the three functions with    *)
(* arguments of its choice; the while loop of the detector advances one    *)
(* iteration per step, the for loop of the range analysis one value per    *)
(* step.                                                                   *)
(***************************************************************************)
Types == {"int", "bool", "float", "str", "none"}

\* the starting values a caller passes to find_ending_loop_for_number
DetectorInputs ==
    {<<"int", n>> : n \in (-MinInput)..MaxNumber}
    \cup {<<"bool", 0>>, <<"bool", 1>>, <<"none", 0>>}
    \cup {<<t, n>> : t \in {"float", "str"}, n \in 0..MaxOther}

\* the lists a caller passes to get_canonical_loop
LoopValues == (0..MaxLoopValue) \cup {9, 27, 63}
LoopLists == UNION {[1..len -> LoopValues] : len \in 0..MaxLoopLen}

\* the bounds a caller passes to analyze_number_range
RangeStarts ==
    ((-MinInput)..MaxRangeStart)
    \cup (HighRangeStart..(HighRangeStart + HighRangeWidth))
\* the range of the documented end-to-end case, analyzeRange(1, 100)
GoldenRange == <<1, 100>>
RangeInputs ==
    UNION {{<<s, e>> : e \in (s - RangeBack)..(s + RangeSpan)} : s \in RangeStarts}
    \cup {GoldenRange}

Init ==
    /\ fn = "none" /\ pc = "idle" /\ error = "none"
    /\ initial_type = "none" /\ initial_number = 0
    /\ seen_numbers = <<>> /\ sequence = <<>>
    /\ current_type = "none" /\ current_number = 0
    /\ step = 0 /\ reversed_num = 0
    /\ loop_start_index = 0 /\ actual_loop_list = <<>> /\ canonical_form = <<>>
    /\ loop_list = <<>>
    /\ start_range = 0 /\ end_range = 0 /\ i = 0
    /\ total_numbers_to_process = 0
    /\ loop_frequencies = <<>> /\ sorted_loops = <<>> /\ summary_lines = <<>>
    /\ detector_calls = <<>>

\* the locals of the detector as a record, and back
DetState ==
    [seen_numbers |-> seen_numbers, sequence |-> sequence,
     current_type |-> current_type, current_number |-> current_number,
     step |-> step, reversed_num |-> reversed_num, raised |-> FALSE]

SetDetState(st) ==
    /\ seen_numbers' = st.seen_numbers
    /\ sequence' = st.sequence
    /\ current_type' = st.current_type
    /\ current_number' = st.current_number
    /\ step' = st.step
    /\ reversed_num' = st.reversed_num

\* find_ending_loop_for_number(x): lines 47-53
CallDetector ==
    /\ pc = "idle"
    /\ \E x \in DetectorInputs :
        /\ fn' = "find_ending_loop_for_number"
        /\ initial_type' = x[1] /\ initial_number' = x[2]
        /\ IF InvalidInput(x[1], x[2])
           THEN /\ pc' = "raised" /\ error' = "ValueError"
                /\ UNCHANGED <<seen_numbers, sequence, current_type,
                               current_number, step, reversed_num>>
           ELSE /\ pc' = "while" /\ error' = "none"
                /\ SetDetState(EnterLoop(x[1], x[2]))
    /\ UNCHANGED <<loop_start_index, actual_loop_list, canonical_form,
                   loop_list, rangevars>>

\* an iteration that moves on without recording the value it visited
WhileStepNoRecord ==
    /\ pc = "while"
    /\ NotSeen(DetState)
    /\ LET st == WhileBody(DetState)
       IN /\ current_type' = st.current_type
          /\ current_number' = st.current_number
          /\ reversed_num' = st.reversed_num
          /\ pc' = IF st.raised THEN "raised" ELSE "while"
          /\ error' = IF st.raised THEN "ValueError" ELSE "none"
    /\ UNCHANGED <<fn, initial_type, initial_number, seen_numbers, sequence, step,
                   loop_start_index, actual_loop_list, canonical_form,
                   loop_list, rangevars>>

\* one iteration of the while loop: lines 59-84
WhileStep ==
    /\ pc = "while"
    /\ NotSeen(DetState)
    /\ LET st == WhileBody(DetState)
       IN /\ SetDetState(st)
          /\ pc' = IF st.raised THEN "raised" ELSE "while"
          /\ error' = IF st.raised THEN "ValueError" ELSE "none"
    /\ UNCHANGED <<fn, initial_type, initial_number,
                   loop_start_index, actual_loop_list, canonical_form,
                   loop_list, rangevars>>

\* the exit of the while loop and the return: lines 86-97
WhileExit ==
    /\ pc = "while"
    /\ ~NotSeen(DetState)
    /\ loop_start_index' = LoopStartIndex(DetState)
    /\ actual_loop_list' = ActualLoopList(DetState)
    /\ canonical_form' = get_canonical_loop(ActualLoopList(DetState))
    /\ pc' = "returned"
    /\ UNCHANGED <<fn, error, initial_type, initial_number, seen_numbers, sequence,
                   current_type, current_number, step, reversed_num,
                   loop_list, rangevars>>

\* get_canonical_loop(l) called on its own: lines 25-33
CallCanonical ==
    /\ pc = "idle"
    /\ \E l \in LoopLists :
        /\ fn' = "get_canonical_loop"
        /\ loop_list' = l
        /\ canonical_form' = get_canonical_loop(l)
    /\ pc' = "returned"
    /\ UNCHANGED <<error, detvars, rangevars>>

\* analyze_number_range(s, e): lines 110-112
CallAnalyze ==
    /\ pc = "idle"
    /\ \E x \in RangeInputs :
        /\ start_range' = x[1] /\ end_range' = x[2]
        /\ total_numbers_to_process' = x[2] - x[1] + 1
        /\ i' = x[1]
    /\ fn' = "analyze_number_range"
    /\ loop_frequencies' = <<>>
    /\ detector_calls' = <<>>
    /\ pc' = "for"
    /\ UNCHANGED <<error, detvars, canonical_form, loop_list, sorted_loops, summary_lines>>

\* one pass of the for loop over range(start_range, end_range + 1), i being
\* the value it takes in this pass: lines 114-118
ForBody ==
    /\ pc = "for"
    /\ i <= end_range
    /\ detector_calls' = Append(detector_calls, i)
    /\ LET loop == find_ending_loop_for_number("int", i)
       IN IF loop.raised
          THEN /\ pc' = "raised" /\ error' = "ValueError"
               /\ UNCHANGED <<i, loop_frequencies>>
          ELSE /\ loop_frequencies' = DictIncr(loop_frequencies, loop.value)
               /\ i' = i + 1
               /\ UNCHANGED <<pc, error>>
    /\ UNCHANGED <<fn, detvars, canonical_form, loop_list, start_range, end_range,
                   total_numbers_to_process, sorted_loops, summary_lines>>

\* the range is exhausted: the summary is built and shown, lines 128-151
Summarize ==
    /\ pc = "for"
    /\ i > end_range
    /\ sorted_loops' = IF loop_frequencies = <<>> THEN sorted_loops
                       ELSE SortedLoops(loop_frequencies)
    /\ summary_lines' = SummaryLines(loop_frequencies, start_range, end_range,
                                     total_numbers_to_process)
    /\ pc' = "returned"
    /\ UNCHANGED <<fn, error, detvars, canonical_form, loop_list, start_range,
                   end_range, i, total_numbers_to_process, loop_frequencies,
                   detector_calls>>

Next ==
    \/ CallDetector
    \/ WhileStep
    \/ WhileExit
    \/ CallCanonical
    \/ CallAnalyze
    \/ ForBody
    \/ Summarize

Spec == Init /\ [][Next]_vars

\* the interpreter runs a started loop on: an enabled iteration or exit is taken
FairSpec == Spec /\ WF_vars(WhileStep) /\ WF_vars(WhileExit)

(***************************************************************************)
(* Definitions the properties are stated with.                             *)
(***************************************************************************)
Detector == "find_ending_loop_for_number"
Analyzer == "analyze_number_range"

Last(l) == l[Len(l)]
Abs(x) == IF x < 0 THEN -x ELSE x
Elements(l) == {l[k] : k \in 1..Len(l)}

RECURSIVE ReversedDigits(_, _)
\* n's decimal digits in reverse order read as a number, by arithmetic
ReversedDigits(n, acc) ==
    IF n = 0 THEN acc ELSE ReversedDigits(n \div 10, 10 * acc + (n % 10))

\* the reverse-subtract step of a non-negative int
StepOf(n) == NextNumber(n, reverse_number("int", n).value)

\* L[k:] + L[:k]
Rotate(l, k) == SubSeq(l, k + 1, Len(l)) \o SubSeq(l, 1, k)

\* a > b in the lexicographic order of tuples
LexGreater(a, b) ==
    \E k \in 1..Len(a) :
        /\ \A j \in 1..(k - 1) : j <= Len(b) /\ a[j] = b[j]
        /\ k > Len(b) \/ a[k] > b[k]

RECURSIVE SumCounts(_)
SumCounts(d) == IF d = <<>> THEN 0 ELSE d[1].count + SumCounts(Tail(d))

ValidRange == 0 <= start_range /\ start_range <= end_range

(***************************************************************************)
(* C1: started on a non-negative int, the while loop of                    *)
(* find_ending_loop_for_number exits and the function returns: the         *)
(* iteration always reaches a value it has already visited.                *)
(***************************************************************************)
C1_Terminates ==
    (fn = Detector /\ initial_type = "int" /\ pc = "while") ~> (pc = "returned")

C1_Witness ==
    /\ fn = Detector /\ pc = "returned" /\ initial_type = "int"
    /\ Len(actual_loop_list) >= 2
    /\ Len(sequence) > Len(actual_loop_list)

(***************************************************************************)
(* C2: the tuple find_ending_loop_for_number returns for a non-negative    *)
(* int is non-empty and its first element is the minimum of its elements.  *)
(***************************************************************************)
C2_MinFirst ==
    (fn = Detector /\ pc = "returned") =>
        /\ Len(canonical_form) >= 1
        /\ \A k \in 1..Len(canonical_form) : canonical_form[1] <= canonical_form[k]

C2_Witness ==
    /\ fn = Detector /\ pc = "returned"
    /\ actual_loop_list[1] # canonical_form[1]

(***************************************************************************)
(* C3 as claimed: for any list L and any rotation R of L,                  *)
(* get_canonical_loop(R) = get_canonical_loop(L).                          *)
(***************************************************************************)
C3_AnyList ==
    (fn = "get_canonical_loop" /\ pc = "returned") =>
        \A k \in 0..Len(loop_list) :
            get_canonical_loop(Rotate(loop_list, k)) = canonical_form

(***************************************************************************)
(* C3 amended: for any list L whose minimum occurs exactly once (any list  *)
(* of pairwise distinct numbers, as a detected loop is) and any rotation R *)
(* of L, get_canonical_loop(R) = get_canonical_loop(L); the rotations of   *)
(* [63, 27, 9] all yield (9, 63, 27).                                      *)
(***************************************************************************)
C3_UniqueMin ==
    (fn = "get_canonical_loop" /\ pc = "returned") =>
        /\ Cardinality({k \in 1..Len(loop_list) :
                          \A j \in 1..Len(loop_list) : loop_list[k] <= loop_list[j]}) <= 1
             => \A k \in 0..Len(loop_list) :
                    get_canonical_loop(Rotate(loop_list, k)) = canonical_form
        /\ loop_list \in {<<63, 27, 9>>, <<27, 9, 63>>, <<9, 63, 27>>}
             => canonical_form = <<9, 63, 27>>

C3_Witness ==
    /\ fn = "get_canonical_loop" /\ pc = "returned"
    /\ loop_list = <<27, 9, 63>>
    /\ canonical_form = <<9, 63, 27>>

(***************************************************************************)
(* C4 as claimed: analyze_number_range with end_range < start_range or a   *)
(* negative bound never returns normally and produces no summary.          *)
(***************************************************************************)
C4_RaisesOnInvalidRange ==
    (fn = Analyzer /\ (end_range < start_range \/ start_range < 0 \/ end_range < 0)) =>
        /\ pc # "returned"
        /\ summary_lines = <<>>

(***************************************************************************)
(* C4 amended: with end_range < start_range analyze_number_range raises    *)
(* nothing: it calls the detector for no value, leaves the table empty and *)
(* returns after the summary "No numbers were processed or no loops        *)
(* found."  With a negative start_range <= end_range the ValueError of     *)
(* find_ending_loop_for_number(start_range) reaches the caller: nothing is *)
(* tallied and no summary is produced.                                     *)
(***************************************************************************)
C4_EmptyOrDetectorError ==
    fn = Analyzer =>
        /\ end_range < start_range =>
            /\ pc \in {"for", "returned"} /\ error = "none"
            /\ detector_calls = <<>> /\ loop_frequencies = <<>> /\ sorted_loops = <<>>
            /\ pc = "returned" =>
                 summary_lines = <<Line("title", <<>>, 0, 0), Line("nothing", <<>>, 0, 0)>>
        /\ (start_range < 0 /\ start_range <= end_range) =>
            /\ pc \in {"for", "raised"}
            /\ loop_frequencies = <<>> /\ sorted_loops = <<>> /\ summary_lines = <<>>
            /\ pc = "for" => detector_calls = <<>> /\ error = "none"
            /\ pc = "raised" => detector_calls = <<start_range>> /\ error = "ValueError"

C4_Witness ==
    /\ fn = Analyzer /\ pc = "returned"
    /\ start_range = 5 /\ end_range = 1

(***************************************************************************)
(* C5: over a range 0 <= start_range <= end_range the detector is called   *)
(* once for each integer of the range, in order, and each call adds one to *)
(* one table entry: after k values the counts sum to k, and on return to   *)
(* end_range - start_range + 1, the total the summary reports (100 for the *)
(* range 1..100).                                                          *)
(***************************************************************************)
C5_CountsSum ==
    (fn = Analyzer /\ ValidRange) =>
        /\ pc \in {"for", "returned"}
        /\ i \in start_range..(end_range + 1)
        /\ detector_calls = [k \in 1..(i - start_range) |-> start_range + k - 1]
        /\ SumCounts(loop_frequencies) = i - start_range
        /\ \A a, b \in 1..Len(loop_frequencies) :
              loop_frequencies[a].loop = loop_frequencies[b].loop => a = b
        /\ pc = "returned" =>
            /\ SumCounts(loop_frequencies) = end_range - start_range + 1
            /\ total_numbers_to_process = SumCounts(loop_frequencies)
            /\ summary_lines[3] = Line("total", <<>>, SumCounts(loop_frequencies), 0)
            /\ <<start_range, end_range>> = GoldenRange => SumCounts(loop_frequencies) = 100

C5_Witness ==
    /\ fn = Analyzer /\ pc = "returned"
    /\ <<start_range, end_range>> = GoldenRange
    /\ SumCounts(loop_frequencies) = 100
    /\ Len(loop_frequencies) = 2

(***************************************************************************)
(* C6: the summary lists every table entry once, higher counts first and,  *)
(* among equal counts, the lexicographically greater loop tuple first.     *)
(***************************************************************************)
C6_SortOrder ==
    (fn = Analyzer /\ pc = "returned" /\ loop_frequencies # <<>>) =>
        /\ Len(sorted_loops) = Len(loop_frequencies)
        /\ Elements(sorted_loops) = Elements(loop_frequencies)
        /\ \A a, b \in 1..Len(sorted_loops) :
              a < b =>
                \/ sorted_loops[a].count > sorted_loops[b].count
                \/ /\ sorted_loops[a].count = sorted_loops[b].count
                   /\ LexGreater(sorted_loops[a].loop, sorted_loops[b].loop)
        /\ Len(summary_lines) = Len(sorted_loops) + 6
        /\ \A k \in 1..Len(sorted_loops) :
              summary_lines[5 + k] =
                  Line("loop", sorted_loops[k].loop, sorted_loops[k].count, 0)

C6_Witness ==
    /\ fn = Analyzer /\ pc = "returned"
    /\ Len(sorted_loops) = 3
    /\ sorted_loops[1].count > sorted_loops[2].count
    /\ LexGreater(sorted_loops[2].loop, sorted_loops[1].loop)
    /\ sorted_loops[2].count = sorted_loops[3].count

(***************************************************************************)
(* C7: reverse_number(n), n >= 0, is the number n's decimal digits spell   *)
(* in reverse order (leading zeros dropped), except that a single digit d  *)
(* gives 10*d; reversing twice restores n when n >= 10 does not end in 0   *)
(* but not in general (100 -> 1 -> 10).                                    *)
(***************************************************************************)
C7_ReverseDigits ==
    (fn = Detector /\ pc \in {"while", "returned"} /\ sequence # <<>>) =>
        LET n == Last(sequence)
        IN /\ n >= 0
           /\ n < 10 => reversed_num = 10 * n
           /\ n >= 10 => reversed_num = ReversedDigits(n, 0)
           /\ (n >= 10 /\ n % 10 # 0) => reverse_number("int", reversed_num).value = n

C7_Witness ==
    /\ fn = Detector /\ pc = "while"
    /\ sequence = <<100>> /\ reversed_num = 1
    /\ reverse_number("int", reversed_num).value = 10

(***************************************************************************)
(* C8: each iteration of the detector loop takes current_number to 0 when  *)
(* it equals its reversal r and to |current_number - r| otherwise; the     *)
(* next value is never negative and depends on current_number alone (from  *)
(* 9 it is 81).                                                            *)
(***************************************************************************)
C8_StepRule ==
    (fn = Detector /\ pc \in {"while", "returned"} /\ sequence # <<>>) =>
        LET c == Last(sequence)
            r == reversed_num
        IN /\ r = reverse_number("int", c).value
           /\ current_number = (IF c = r THEN 0 ELSE Abs(c - r))
           /\ current_number >= 0
           /\ \A k \in 1..(Len(sequence) - 1) :
                 /\ sequence[k + 1] = Abs(sequence[k] - reverse_number("int", sequence[k]).value)
                 /\ \A j \in 1..(Len(sequence) - 1) :
                       sequence[j] = sequence[k] => sequence[j + 1] = sequence[k + 1]

C8_Witness ==
    /\ fn = Detector /\ pc = "while"
    /\ sequence = <<9>> /\ reversed_num = 90 /\ current_number = 81

C10_GenuineCycle ==
    (fn = Detector /\ pc = "returned") =>
        LET loop == canonical_form
            len == Len(loop)
        IN /\ \A a, b \in 1..len : loop[a] = loop[b] => a = b
           /\ \A k \in 1..len : StepOf(loop[k]) = loop[(k % len) + 1]
           /\ \A m \in Elements(loop) :
                 find_ending_loop_for_number("int", m) = [raised |-> FALSE, value |-> loop]
           /\ initial_number = 0 => loop = <<0>>

C10_Witness ==
    /\ fn = Detector /\ pc = "returned"
    /\ actual_loop_list = <<6534, 2178>>
    /\ canonical_form = <<2178, 6534>>

====
